---- MODULE Spec2Model ----
(***************************************************************************)
(* A model of vector.h: RawMemory<T> (an owned block of raw storage) and   *)
(* Vector<T> (the growable array built on it).                             *)
(*                                                                         *)
(* The heap is a finite set of numbered blocks.  A block is a sequence of  *)
(* slots; a slot is Raw (no object lives there), Moved (a live object in   *)
(* the moved-from state) or the value of a live object.  A Vector object   *)
(* is the record of its fields: data_.buffer_, data_.capacity_ and size_,  *)
(* plus whether the object itself is alive.  Offsets are 0-based as in     *)
(* the code; slot i of a block is mem[i + 1].                              *)
(***************************************************************************)
EXTENDS Integers, Sequences, FiniteSets, TLC

VARIABLES
    heap,           \* the blocks operator new has handed out and not lost
    vec,            \* the Vector objects
    nothrow_move,   \* std::is_nothrow_move_constructible_v<T> || !std::is_copy_constructible_v<T>
    leaked,         \* number of blocks no object points to any more
    watch,          \* the calls a run records in last
    last,           \* the recorded call that was made last
    log,            \* the values appended to a Vector since Vector()
    discarded       \* the slots of new_data when the last call released it by unwinding

vars == <<heap, vec, nothrow_move, leaked, watch, last, log, discarded>>

(* ------------------------------ bounds -------------------------------- *)

\* largest capacity_ an operation may produce
MaxCap == 4

\* number of blocks the allocator can hand out before operator new throws
MaxBlocks == 3

\* number of element slots the allocator can hand out in total
MaxSlots == 6

\* number of blocks a run may lose
MaxLeaks == 1

\* the two Vector objects of the program
Vecs == {"a", "b"}

\* the element values the caller passes in
Values == {0, 1}

(* --------------------------- slots and heap --------------------------- *)

\* buffer_ = nullptr
NullPtr == 0

\* a slot of raw memory in which no object has been constructed
Raw == -1

\* a live object that has been moved from
Moved == -2

\* the value of T()
Default == 0

Blocks == 1 .. MaxBlocks

FreeBlock == [alloc |-> FALSE, mem |-> << >>]

\* *(p + i) for p the start of block b
Get(h, b, i) == h[b].mem[i + 1]

Put(h, b, i, x) == [h EXCEPT ![b].mem[i + 1] = x]

HeapFull(h) == \A b \in Blocks : h[b].alloc

RECURSIVE SlotsInUse(_, _)
SlotsInUse(h, b) == IF b = 0 THEN 0 ELSE Len(h[b].mem) + SlotsInUse(h, b - 1)

\* RawMemory::Allocate, n # 0: the block operator new returns
Allocate(h) == CHOOSE b \in Blocks : /\ ~h[b].alloc
                                     /\ \A c \in Blocks : ~h[c].alloc => b <= c

NewBlock(h, b, n) == [h EXCEPT ![b] = [alloc |-> TRUE, mem |-> [i \in 1 .. n |-> Raw]]]

\* RawMemory::Deallocate: operator delete(nullptr) does nothing
Deallocate(h, b) == IF b = NullPtr THEN h ELSE [h EXCEPT ![b] = FreeBlock]

\* a block whose only pointer is overwritten is never seen again: it leaves
\* the heap of the model, which keeps the number of such blocks in leaked
Orphan(h, b) == IF b = NullPtr THEN h ELSE [h EXCEPT ![b] = FreeBlock]

(* ------------------------ <memory> / <algorithm> ---------------------- *)

RECURSIVE UninitializedCopyN(_, _, _, _, _, _)
UninitializedCopyN(h, sb, so, n, db, do) ==
    IF n = 0 THEN h
    ELSE UninitializedCopyN(Put(h, db, do, Get(h, sb, so)), sb, so + 1, n - 1, db, do + 1)

RECURSIVE UninitializedMoveN(_, _, _, _, _, _)
UninitializedMoveN(h, sb, so, n, db, do) ==
    IF n = 0 THEN h
    ELSE UninitializedMoveN(Put(Put(h, db, do, Get(h, sb, so)), sb, so, Moved),
                            sb, so + 1, n - 1, db, do + 1)

\* as UninitializedValueConstructN, but the last object is not constructed
ValueConstructOneLess(h, b, o, n) ==
    IF n = 0 THEN h
    ELSE [h EXCEPT ![b].mem = [i \in DOMAIN @ |->
                                 IF i - 1 \in o .. o + n - 2 THEN Default ELSE @[i]]]

RECURSIVE UninitializedValueConstructN(_, _, _, _)
UninitializedValueConstructN(h, b, o, n) ==
    IF n = 0 THEN h
    ELSE UninitializedValueConstructN(Put(h, b, o, Default), b, o + 1, n - 1)

RECURSIVE DestroyN(_, _, _, _)
DestroyN(h, b, o, n) ==
    IF n = 0 THEN h
    ELSE DestroyN(Put(h, b, o, Raw), b, o + 1, n - 1)

\* as StdMove, but only the last object is moved, into the hole (swap and pop)
StdMoveLastOnly(h, b, first, lst, dfirst) ==
    IF first = lst THEN h
    ELSE Put(Put(h, b, dfirst, Get(h, b, lst - 1)), b, lst - 1, Moved)

\* std::move(first, last, d_first) inside one block: move-assigns front to back
RECURSIVE StdMove(_, _, _, _, _)
StdMove(h, b, first, lst, dfirst) ==
    IF first = lst THEN h
    ELSE StdMove(Put(Put(h, b, dfirst, Get(h, b, first)), b, first, Moved),
                 b, first + 1, lst, dfirst + 1)

\* as StdMoveBackward, but front to back, over the objects still to be moved
StdMoveBackwardFrontFirst(h, b, first, lst, dlast) ==
    StdMove(h, b, first, lst, dlast - (lst - first))

\* std::move_backward(first, last, d_last) inside one block: back to front
RECURSIVE StdMoveBackward(_, _, _, _, _)
StdMoveBackward(h, b, first, lst, dlast) ==
    IF first = lst THEN h
    ELSE StdMoveBackward(Put(Put(h, b, dlast - 1, Get(h, b, lst - 1)), b, lst - 1, Moved),
                         b, first, lst - 1, dlast - 1)

\* the loop (*this)[i] = other[i], i < n, of the copy assignment
RECURSIVE CopyAssignN(_, _, _, _, _)
CopyAssignN(h, sb, db, i, n) ==
    IF i >= n THEN h
    ELSE CopyAssignN(Put(h, db, i, Get(h, sb, i)), sb, db, i + 1, n)

(* ------------------------------ Vector -------------------------------- *)

\* a Vector whose lifetime has not begun or has ended
NoVector == [live |-> FALSE, buffer |-> NullPtr, capacity |-> 0, size |-> 0]

\* Vector() = default: data_ = RawMemory(), size_ = 0
EmptyVector == [live |-> TRUE, buffer |-> NullPtr, capacity |-> 0, size |-> 0]

Size(v) == v.size

Capacity(v) == v.capacity

\* what operator[] returns for 0 .. Size() - 1, as a sequence
Elems(h, v) == [i \in 1 .. v.size |-> Get(h, v.buffer, i - 1)]

\* as RawMemoryNew, but the block has room for one element more than asked
RawMemoryNewOneMore(h, n) ==
    IF n = 0 THEN [heap |-> h, buffer |-> NullPtr, capacity |-> 0]
    ELSE [heap |-> NewBlock(h, Allocate(h), n + 1), buffer |-> Allocate(h),
          capacity |-> n + 1]

\* RawMemory(size_t capacity) for capacity # 0, when operator new succeeds
RawMemoryNew(h, n) ==
    IF n = 0 THEN [heap |-> h, buffer |-> NullPtr, capacity |-> 0]
    ELSE [heap |-> NewBlock(h, Allocate(h), n), buffer |-> Allocate(h), capacity |-> n]

\* whether RawMemory(n) throws std::bad_alloc: operator new fails when it
\* chooses to (oom) or when the heap cannot hold n more slots; Allocate(0)
\* never allocates
AllocFails(h, n, oom) ==
    n # 0 /\ (oom \/ HeapFull(h) \/ SlotsInUse(h, MaxBlocks) + n > MaxSlots)

\* as MoveData, but the last object of the range stays behind
MoveDataOneLess(h, sb, so, n, db, do) ==
    UninitializedCopyN(h, sb, so, IF n = 0 THEN 0 ELSE n - 1, db, do)

\* Vector::MoveData
MoveData(h, sb, so, n, db, do) ==
    IF nothrow_move THEN UninitializedMoveN(h, sb, so, n, db, do)
    ELSE UninitializedCopyN(h, sb, so, n, db, do)

\* as MoveToNewData, but only buffer_ is swapped: capacity_ stays as it was
MoveToNewDataStaleCapacity(h, v, new_data) ==
    LET h1 == UninitializedCopyN(h, v.buffer, 0, v.size, new_data.buffer, 0)
        h2 == DestroyN(h1, v.buffer, 0, v.size)
    IN  [heap |-> h2,
         self |-> [v EXCEPT !.buffer = new_data.buffer],
         new_data |-> [buffer |-> v.buffer, capacity |-> v.capacity]]

\* Vector::MoveToNewData: new_data is a RawMemory record; on return it holds
\* the old block, which its owner's scope exit releases
MoveToNewData(h, v, new_data) ==
    LET h1 == IF nothrow_move
              THEN UninitializedMoveN(h, v.buffer, 0, v.size, new_data.buffer, 0)
              ELSE UninitializedCopyN(h, v.buffer, 0, v.size, new_data.buffer, 0)
        h2 == DestroyN(h1, v.buffer, 0, v.size)
    IN  [heap |-> h2,
         self |-> [v EXCEPT !.buffer = new_data.buffer, !.capacity = new_data.capacity],
         new_data |-> [buffer |-> v.buffer, capacity |-> v.capacity]]

\* as GrowCapacity, but room for one more element only
GrowCapacityByOne(v) == v.size + 1

\* the capacity the growth branch of Emplace asks for
GrowCapacity(v) == IF v.size = 0 THEN 1 ELSE v.size * 2

\* as EmplaceSpare, but the new element is written over the one at index
EmplaceSpareOverwrites(h, v, index, val) == Put(h, v.buffer, index, val)

\* Vector::Emplace, branch size_ < Capacity()
EmplaceSpare(h, v, index, val) ==
    IF index = v.size
    THEN Put(h, v.buffer, v.size, val)
    ELSE LET temp_object == val
             h1 == Put(Put(h, v.buffer, v.size, Get(h, v.buffer, v.size - 1)),
                       v.buffer, v.size - 1, Moved)
             h2 == StdMoveBackward(h1, v.buffer, index, v.size - 1, v.size)
         IN  Put(h2, v.buffer, index, temp_object)

\* Vector::Emplace, branch size_ >= Capacity(), after new_data was allocated
EmplaceGrow(h, v, index, val) ==
    LET nd == RawMemoryNew(h, GrowCapacity(v))
        h1 == Put(nd.heap, nd.buffer, index, val)
        h2 == MoveData(h1, v.buffer, 0, index, nd.buffer, 0)
        h3 == MoveData(h2, v.buffer, index, v.size - index, nd.buffer, index + 1)
        h4 == DestroyN(h3, v.buffer, 0, v.size)
    IN  [heap |-> Deallocate(h4, v.buffer),
         self |-> [v EXCEPT !.buffer = nd.buffer, !.capacity = nd.capacity]]

\* Vector::Emplace(pos, args...) with index = pos - begin()
Emplace(h, v, index, val, oom) ==
    IF v.size < Capacity(v)
    THEN [heap |-> EmplaceSpare(h, v, index, val),
          self |-> [v EXCEPT !.size = v.size + 1],
          res |-> "ok", branch |-> "spare"]
    ELSE IF AllocFails(h, GrowCapacity(v), oom)
    THEN [heap |-> h, self |-> v, res |-> "bad_alloc", branch |-> "grow"]
    ELSE LET g == EmplaceGrow(h, v, index, val)
         IN  [heap |-> g.heap,
              self |-> [g.self EXCEPT !.size = v.size + 1],
              res |-> "ok", branch |-> "grow"]

\* Vector::Erase(pos) with index = pos - begin()
EraseAt(h, v, index) ==
    LET h1 == StdMove(h, v.buffer, index + 1, v.size, index)
        h2 == DestroyN(h1, v.buffer, v.size - 1, 1)
    IN  [heap |-> h2, self |-> [v EXCEPT !.size = v.size - 1]]

\* Vector::Resize(new_size)
ResizeTo(h, v, new_size, oom) ==
    IF new_size = v.size
    THEN [heap |-> h, self |-> v, res |-> "ok", branch |-> "same"]
    ELSE IF new_size > Capacity(v)
    THEN IF AllocFails(h, new_size, oom)
         THEN [heap |-> h, self |-> v, res |-> "bad_alloc", branch |-> "grow"]
         ELSE LET nd == RawMemoryNew(h, new_size)
                  h1 == UninitializedValueConstructN(nd.heap, nd.buffer, v.size,
                                                     new_size - v.size)
                  m  == MoveToNewData(h1, v, nd)
              IN  [heap |-> Deallocate(m.heap, m.new_data.buffer),
                   self |-> [m.self EXCEPT !.size = new_size],
                   res |-> "ok", branch |-> "grow"]
    ELSE IF v.size > new_size
    THEN [heap |-> DestroyN(h, v.buffer, new_size, v.size - new_size),
          self |-> [v EXCEPT !.size = new_size],
          res |-> "ok", branch |-> "shrink"]
    ELSE [heap |-> UninitializedValueConstructN(h, v.buffer, v.size, new_size - v.size),
          self |-> [v EXCEPT !.size = new_size],
          res |-> "ok", branch |-> "fill"]

\* as ReserveTo, but the elements are destroyed before new_data is allocated
ReserveToDestroysFirst(h, v, new_capacity, oom) ==
    IF new_capacity <= Capacity(v)
    THEN [heap |-> h, self |-> v, res |-> "ok", branch |-> "same"]
    ELSE IF AllocFails(h, new_capacity, oom)
    THEN [heap |-> DestroyN(h, v.buffer, 0, v.size), self |-> [v EXCEPT !.size = 0],
          res |-> "bad_alloc", branch |-> "grow"]
    ELSE LET nd == RawMemoryNew(h, new_capacity)
             h1 == UninitializedCopyN(nd.heap, v.buffer, 0, v.size, nd.buffer, 0)
             h2 == DestroyN(h1, v.buffer, 0, v.size)
         IN  [heap |-> Deallocate(h2, v.buffer),
              self |-> [v EXCEPT !.buffer = nd.buffer, !.capacity = nd.capacity],
              res |-> "ok", branch |-> "grow"]

\* Vector::Reserve(new_capacity)
ReserveTo(h, v, new_capacity, oom) ==
    IF new_capacity <= Capacity(v)
    THEN [heap |-> h, self |-> v, res |-> "ok", branch |-> "same"]
    ELSE IF AllocFails(h, new_capacity, oom)
    THEN [heap |-> h, self |-> v, res |-> "bad_alloc", branch |-> "grow"]
    ELSE LET nd == RawMemoryNew(h, new_capacity)
             m  == MoveToNewData(nd.heap, v, nd)
         IN  [heap |-> Deallocate(m.heap, m.new_data.buffer),
              self |-> m.self, res |-> "ok", branch |-> "grow"]

\* as CopyOf, but the copy points to the block of the original
CopyOfShallow(h, other) ==
    [heap |-> h,
     self |-> [live |-> TRUE, buffer |-> other.buffer, capacity |-> other.capacity,
               size |-> other.size]]

\* Vector(const Vector& other), when the allocation succeeds
CopyOf(h, other) ==
    LET nd == RawMemoryNew(h, other.size)
    IN  [heap |-> UninitializedCopyN(nd.heap, other.buffer, 0, other.size, nd.buffer, 0),
         self |-> [live |-> TRUE, buffer |-> nd.buffer, capacity |-> nd.capacity,
                   size |-> other.size]]

\* as MoveFrom, but capacity_ of the source is copied, not exchanged
MoveFromKeepsCapacity(other) ==
    [self  |-> [live |-> TRUE, buffer |-> other.buffer, capacity |-> other.capacity,
                size |-> other.size],
     other |-> [other EXCEPT !.buffer = NullPtr, !.size = 0]]

\* RawMemory::operator=(RawMemory&&) followed by size_ = std::exchange(other.size_, 0):
\* the body shared by Vector(Vector&&) and Vector::operator=(Vector&&)
MoveFrom(other) ==
    [self  |-> [live |-> TRUE, buffer |-> other.buffer, capacity |-> other.capacity,
                size |-> other.size],
     other |-> [other EXCEPT !.buffer = NullPtr, !.capacity = 0, !.size = 0]]

\* as CopyAssignTo, but the elements the target lacks are not constructed
CopyAssignNoSuffix(h, v, other, oom) ==
    IF Capacity(v) >= other.size
    THEN LET min_size == IF v.size < other.size THEN v.size ELSE other.size
             h1 == CopyAssignN(h, other.buffer, v.buffer, 0, min_size)
             h2 == IF v.size >= other.size
                   THEN DestroyN(h1, v.buffer, other.size, v.size - other.size)
                   ELSE h1
         IN  [heap |-> h2, self |-> [v EXCEPT !.size = other.size],
              res |-> "ok", branch |-> "reuse"]
    ELSE IF AllocFails(h, other.size, oom)
    THEN [heap |-> h, self |-> v, res |-> "bad_alloc", branch |-> "realloc"]
    ELSE LET new_vector == CopyOf(h, other)
             h1 == DestroyN(new_vector.heap, v.buffer, 0, v.size)
         IN  [heap |-> Deallocate(h1, v.buffer),
              self |-> new_vector.self, res |-> "ok", branch |-> "realloc"]

\* as CopyAssignTo, but always by copy and swap, whatever the capacity
CopyAssignAlwaysSwap(h, v, other, oom) ==
    IF AllocFails(h, other.size, oom)
    THEN [heap |-> h, self |-> v, res |-> "bad_alloc", branch |-> "realloc"]
    ELSE LET new_vector == CopyOf(h, other)
             h1 == DestroyN(new_vector.heap, v.buffer, 0, v.size)
         IN  [heap |-> Deallocate(h1, v.buffer),
              self |-> new_vector.self, res |-> "ok", branch |-> "realloc"]

\* Vector::operator=(const Vector& other), this # &other
CopyAssignTo(h, v, other, oom) ==
    IF Capacity(v) >= other.size
    THEN LET min_size == IF v.size < other.size THEN v.size ELSE other.size
             h1 == CopyAssignN(h, other.buffer, v.buffer, 0, min_size)
             h2 == IF v.size >= other.size
                   THEN DestroyN(h1, v.buffer, other.size, v.size - other.size)
                   ELSE UninitializedCopyN(h1, other.buffer, v.size, other.size - v.size,
                                           v.buffer, v.size)
         IN  [heap |-> h2, self |-> [v EXCEPT !.size = other.size],
              res |-> "ok", branch |-> "reuse"]
    ELSE IF AllocFails(h, other.size, oom)
    THEN [heap |-> h, self |-> v, res |-> "bad_alloc", branch |-> "realloc"]
    ELSE LET new_vector == CopyOf(h, other)
             \* Swap(new_vector), then ~Vector() of new_vector on the old storage
             h1 == DestroyN(new_vector.heap, v.buffer, 0, v.size)
         IN  [heap |-> Deallocate(h1, v.buffer),
              self |-> new_vector.self, res |-> "ok", branch |-> "realloc"]

\* ~Vector() then ~RawMemory()
Destructor(h, v) == Deallocate(DestroyN(h, v.buffer, 0, v.size), v.buffer)

(* ----------------------- calls that end by a throw -------------------- *)

\* the operations of T that can throw, as the result of the call they end:
\* T(args...) or T(), the copy construction of an element, the construction
\* of an element from an rvalue, and the assignment of one element to another.
\* An operation of T that throws leaves its operands as they were.
Throws == {"construct_throws", "copy_throws", "move_throws", "assign_throws"}

\* SIZE_MAX, for a size_t of 16 bits
SizeMax == 65535

\* the slots of block b
Slots(h, b) == IF b = NullPtr THEN << >> ELSE h[b].mem

\* ~RawMemory() of a local new_data while an exception unwinds the call
Unwind(h, v, new_data, branch, point) ==
    [heap |-> Deallocate(h, new_data.buffer), self |-> v, res |-> point,
     branch |-> branch, discarded |-> Slots(h, new_data.buffer)]

\* an exception that leaves a call which has no local RawMemory
Propagate(h, v, branch, point) ==
    [heap |-> h, self |-> v, res |-> point, branch |-> branch, discarded |-> << >>]

\* whether Emplace can end by point after j element transfers (copies on the
\* growth branch, assignments of lines 211-212 on the other) have completed
EmplaceCanThrow(v, index, point, j) ==
    IF v.size < Capacity(v)
    THEN IF index = v.size
         THEN point = "construct_throws" /\ j = 0
         ELSE \/ point = "construct_throws" /\ j = 0
              \/ point = "move_throws" /\ j = 0 /\ ~nothrow_move
              \/ point = "assign_throws" /\ j \in 0 .. v.size - 1 - index
    ELSE \/ point = "construct_throws" /\ j = 0
         \/ point = "copy_throws" /\ j \in 0 .. v.size - 1 /\ ~nothrow_move

\* as EmplaceSpareUnwinds, but the last element is moved to the free slot
\* before temp_object is constructed
EmplaceSpareMovesFirst(h, v, index, val, point, j) ==
    IF index = v.size
    THEN Propagate(h, v, "spare_end", point)
    ELSE Propagate(Put(Put(h, v.buffer, v.size, Get(h, v.buffer, v.size - 1)),
                       v.buffer, v.size - 1, Moved), v, "spare_middle", point)

\* Vector::Emplace, branch size_ < Capacity(), left by an exception: at
\* pos == end() (spare_end) or before it (spare_middle)
EmplaceSpareUnwinds(h, v, index, val, point, j) ==
    IF index = v.size
    THEN Propagate(h, v, "spare_end", point)
    ELSE IF point \in {"construct_throws", "move_throws"}
    THEN Propagate(h, v, "spare_middle", point)
    ELSE LET h1 == Put(Put(h, v.buffer, v.size, Get(h, v.buffer, v.size - 1)),
                       v.buffer, v.size - 1, Moved)
             \* std::move_backward stops after its first j assignments
             h2 == StdMoveBackward(h1, v.buffer, v.size - 1 - j, v.size - 1, v.size)
         IN  Propagate(h2, v, "spare_middle", point)

\* as EmplaceGrowUnwinds, but the elements are moved to new_data, not copied
EmplaceGrowMoves(h, v, index, val, point, j) ==
    LET nd == RawMemoryNew(h, GrowCapacity(v))
        h1 == UninitializedMoveN(nd.heap, v.buffer, 0, j, nd.buffer, 0)
        h2 == DestroyN(h1, nd.buffer, 0, j)
    IN  Unwind(h2, v, nd, "grow", point)

\* Vector::Emplace, branch size_ >= Capacity(), left by an exception after
\* new_data was allocated
EmplaceGrowUnwinds(h, v, index, val, point, j) ==
    LET nd == RawMemoryNew(h, GrowCapacity(v))
    IN  IF point = "construct_throws"
        THEN Unwind(nd.heap, v, nd, "grow", point)
        ELSE LET h1 == Put(nd.heap, nd.buffer, index, val)
             IN  IF j < index
                 THEN LET h2 == UninitializedCopyN(h1, v.buffer, 0, j, nd.buffer, 0)
                          \* std::uninitialized_copy_n destroys what it built
                          h3 == DestroyN(h2, nd.buffer, 0, j)
                          \* catch (...) of line 221
                          h4 == DestroyN(h3, nd.buffer, index, 1)
                      IN  Unwind(h4, v, nd, "grow", point)
                 ELSE LET h2 == UninitializedCopyN(h1, v.buffer, 0, index, nd.buffer, 0)
                          h3 == UninitializedCopyN(h2, v.buffer, index, j - index,
                                                   nd.buffer, index + 1)
                          h4 == DestroyN(h3, nd.buffer, index + 1, j - index)
                          \* catch (...) of line 229
                          h5 == DestroyN(h4, nd.buffer, 0, index + 1)
                      IN  Unwind(h5, v, nd, "grow", point)

\* Vector::Emplace(pos, args...) left by an exception of T
EmplaceUnwinds(h, v, index, val, point, j) ==
    IF v.size < Capacity(v)
    THEN EmplaceSpareUnwinds(h, v, index, val, point, j)
    ELSE EmplaceGrowUnwinds(h, v, index, val, point, j)

\* whether Erase can end by an exception after j assignments
EraseCanThrow(v, index, point, j) ==
    point = "assign_throws" /\ j \in 0 .. v.size - 2 - index

\* Vector::Erase(pos) left by an exception of std::move
EraseAtUnwinds(h, v, index, point, j) ==
    Propagate(StdMove(h, v.buffer, index + 1, index + 1 + j, index), v, "none", point)

\* whether Resize can end by point after j elements were built (T() in the
\* tail, or copies in new_data)
ResizeCanThrow(v, new_size, point, j) ==
    /\ new_size > v.size
    /\ \/ point = "construct_throws" /\ j \in 0 .. new_size - v.size - 1
       \/ /\ point = "copy_throws" /\ j \in 0 .. v.size - 1
          /\ new_size > Capacity(v) /\ ~nothrow_move

\* Vector::Resize(new_size) left by an exception of T
ResizeToUnwinds(h, v, new_size, point, j) ==
    IF new_size > Capacity(v)
    THEN LET nd == RawMemoryNew(h, new_size)
         IN  IF point = "construct_throws"
             THEN LET h1 == UninitializedValueConstructN(nd.heap, nd.buffer, v.size, j)
                      \* std::uninitialized_value_construct_n destroys what it built
                      h2 == DestroyN(h1, nd.buffer, v.size, j)
                  IN  Unwind(h2, v, nd, "grow", point)
             ELSE LET h1 == UninitializedValueConstructN(nd.heap, nd.buffer, v.size,
                                                         new_size - v.size)
                      \* MoveToNewData: std::uninitialized_copy_n throws
                      h2 == UninitializedCopyN(h1, v.buffer, 0, j, nd.buffer, 0)
                      h3 == DestroyN(h2, nd.buffer, 0, j)
                  IN  Unwind(h3, v, nd, "grow", point)
    ELSE LET h1 == UninitializedValueConstructN(h, v.buffer, v.size, j)
             h2 == DestroyN(h1, v.buffer, v.size, j)
         IN  Propagate(h2, v, "fill", point)

\* whether Reserve can end by point after j copies
ReserveCanThrow(v, new_capacity, point, j) ==
    /\ new_capacity > Capacity(v)
    /\ point = "copy_throws" /\ j \in 0 .. v.size - 1 /\ ~nothrow_move

\* Vector::Reserve(new_capacity) left by an exception of T
ReserveToUnwinds(h, v, new_capacity, point, j) ==
    LET nd == RawMemoryNew(h, new_capacity)
        h1 == UninitializedCopyN(nd.heap, v.buffer, 0, j, nd.buffer, 0)
        h2 == DestroyN(h1, nd.buffer, 0, j)
    IN  Unwind(h2, v, nd, "grow", point)

\* whether a = b can end by point after j assignments or j copies
CopyAssignCanThrow(v, other, point, j) ==
    IF Capacity(v) >= other.size
    THEN \/ /\ point = "assign_throws"
            /\ j \in 0 .. (IF v.size < other.size THEN v.size ELSE other.size) - 1
         \/ point = "copy_throws" /\ j \in 0 .. other.size - v.size - 1
    ELSE point = "copy_throws" /\ j \in 0 .. other.size - 1

\* Vector::operator=(const Vector& other) left by an exception of T
CopyAssignToUnwinds(h, v, other, point, j) ==
    IF Capacity(v) >= other.size
    THEN IF point = "assign_throws"
         THEN Propagate(CopyAssignN(h, other.buffer, v.buffer, 0, j), v, "reuse", point)
         ELSE LET h1 == CopyAssignN(h, other.buffer, v.buffer, 0, v.size)
                  h2 == UninitializedCopyN(h1, other.buffer, v.size, j, v.buffer, v.size)
                  h3 == DestroyN(h2, v.buffer, v.size, j)
              IN  Propagate(h3, v, "reuse", point)
    ELSE \* Vector new_vector(other): its data_ is released by the unwinding
         LET nd == RawMemoryNew(h, other.size)
             h1 == UninitializedCopyN(nd.heap, other.buffer, 0, j, nd.buffer, 0)
             h2 == DestroyN(h1, nd.buffer, 0, j)
         IN  Unwind(h2, v, nd, "realloc", point)

(* ------------------------------ actions ------------------------------- *)

\* a call: its name, the object it was made on, the other Vector involved,
\* its integer argument (position, size or capacity), the value passed, how
\* it ended and which branch of the code it took
Call(op, self, other, n, val, res, branch) ==
    [op |-> op, self |-> self, other |-> other, n |-> n, val |-> val,
     res |-> res, branch |-> branch]

Idle == Call("none", "a", "a", 0, 0, "ok", "none")

\* what last becomes after call c: the call itself when its name is watched,
\* or when it did not return and "failed" is watched (without its integer
\* and value arguments unless "args" is watched), only the objects it
\* touched when "any" is watched, else nothing
Seen(c) ==
    IF c.op \in watch \/ (c.res # "ok" /\ "failed" \in watch)
    THEN IF "args" \in watch THEN c ELSE [c EXCEPT !.n = 0, !.val = 0]
    ELSE IF "any" \in watch THEN Call("any", c.self, c.other, 0, 0, "ok", "none")
    ELSE Idle

\* log[a].vals: the values appended to a since Vector(), as long as nothing
\* but successful PushBack calls were made on a (log[a].only_appends); kept
\* when "log" is watched
NoLog == [only_appends |-> FALSE, vals |-> << >>]

Unlog(S) == [a \in Vecs |-> IF a \in S THEN NoLog ELSE log[a]]

AllCalls == {"Vector()", "Vector(n)", "Vector(const&)", "Vector(&&)",
             "operator=(const&)", "operator=(&&)", "PushBack", "Insert", "Erase",
             "Resize", "PopBack", "Reserve", "Swap", "operator[]", "~Vector"}

\* the state before any Vector exists, for the element types T whose
\* relocation trait is in kinds, recording what w says
InitWatching(w, kinds) ==
    /\ heap = [b \in Blocks |-> FreeBlock]
    /\ vec = [a \in Vecs |-> NoVector]
    /\ nothrow_move \in kinds
    /\ leaked = 0
    /\ watch = w
    /\ last = Idle
    /\ log = [a \in Vecs |-> NoLog]
    /\ discarded = << >>

Init == InitWatching({}, {TRUE})

\* Vector a;
DefaultConstruct(a) ==
    /\ ~vec[a].live
    /\ vec' = [vec EXCEPT ![a] = EmptyVector]
    /\ log' = IF "log" \in watch
              THEN [log EXCEPT ![a] = [only_appends |-> TRUE, vals |-> << >>]]
              ELSE log
    /\ last' = Seen(Call("Vector()", a, a, 0, 0, "ok", "none"))
    /\ discarded' = << >>
    /\ UNCHANGED <<heap, nothrow_move, leaked, watch>>

\* Vector a(n);
SizedConstruct(a, n, oom) ==
    /\ ~vec[a].live
    /\ oom => n # 0
    /\ IF AllocFails(heap, n, oom)
       THEN /\ last' = Seen(Call("Vector(n)", a, a, n, 0, "bad_alloc", "none"))
            /\ UNCHANGED <<heap, vec>>
       ELSE LET nd == RawMemoryNew(heap, n)
            IN  /\ heap' = UninitializedValueConstructN(nd.heap, nd.buffer, 0, n)
                /\ vec' = [vec EXCEPT ![a] = [live |-> TRUE, buffer |-> nd.buffer,
                                              capacity |-> nd.capacity, size |-> n]]
                /\ last' = Seen(Call("Vector(n)", a, a, n, 0, "ok", "none"))
    /\ log' = Unlog({a})
    /\ discarded' = << >>
    /\ UNCHANGED <<nothrow_move, leaked, watch>>

\* Vector a(b);
CopyConstruct(a, b, oom) ==
    /\ a # b
    /\ ~vec[a].live
    /\ vec[b].live
    /\ oom => vec[b].size # 0
    /\ IF AllocFails(heap, vec[b].size, oom)
       THEN /\ last' = Seen(Call("Vector(const&)", a, b, 0, 0, "bad_alloc", "none"))
            /\ UNCHANGED <<heap, vec>>
       ELSE LET c == CopyOf(heap, vec[b])
            IN  /\ heap' = c.heap
                /\ vec' = [vec EXCEPT ![a] = c.self]
                /\ last' = Seen(Call("Vector(const&)", a, b, 0, 0, "ok", "none"))
    /\ log' = Unlog({a})
    /\ discarded' = << >>
    /\ UNCHANGED <<nothrow_move, leaked, watch>>

\* Vector a(std::move(b));
MoveConstruct(a, b) ==
    /\ a # b
    /\ ~vec[a].live
    /\ vec[b].live
    /\ LET m == MoveFrom(vec[b])
       IN  vec' = [vec EXCEPT ![a] = m.self, ![b] = m.other]
    /\ log' = Unlog({a, b})
    /\ last' = Seen(Call("Vector(&&)", a, b, 0, 0, "ok", "none"))
    /\ discarded' = << >>
    /\ UNCHANGED <<heap, nothrow_move, leaked, watch>>

\* a = b;
CopyAssign(a, b, oom) ==
    /\ vec[a].live
    /\ vec[b].live
    /\ oom => a # b /\ Capacity(vec[a]) < vec[b].size
    /\ IF a = b
       THEN /\ last' = Seen(Call("operator=(const&)", a, b, 0, 0, "ok", "self"))
            /\ UNCHANGED <<heap, vec>>
       ELSE LET r == CopyAssignTo(heap, vec[a], vec[b], oom)
            IN  /\ heap' = r.heap
                /\ vec' = [vec EXCEPT ![a] = r.self]
                /\ last' = Seen(Call("operator=(const&)", a, b, 0, 0, r.res, r.branch))
    /\ log' = Unlog({a})
    /\ discarded' = << >>
    /\ UNCHANGED <<nothrow_move, leaked, watch>>

\* a = std::move(b); the block a held is neither released nor pointed to
\* afterwards, and the elements in it are not destroyed
MoveAssign(a, b) ==
    /\ vec[a].live
    /\ vec[b].live
    /\ a # b /\ vec[a].buffer # NullPtr => leaked < MaxLeaks
    /\ IF a = b
       THEN /\ last' = Seen(Call("operator=(&&)", a, b, 0, 0, "ok", "self"))
            /\ UNCHANGED <<heap, vec, leaked>>
       ELSE LET m == MoveFrom(vec[b])
            IN  /\ vec' = [vec EXCEPT ![a] = m.self, ![b] = m.other]
                /\ heap' = Orphan(heap, vec[a].buffer)
                /\ leaked' = IF vec[a].buffer = NullPtr THEN leaked ELSE leaked + 1
                /\ last' = Seen(Call("operator=(&&)", a, b, 0, 0, "ok", "none"))
    /\ log' = Unlog({a, b})
    /\ discarded' = << >>
    /\ UNCHANGED <<nothrow_move, watch>>

\* a.PushBack(val); a.EmplaceBack(val);
PushBack(a, val, oom) ==
    /\ vec[a].live
    /\ vec[a].size < Capacity(vec[a]) \/ GrowCapacity(vec[a]) <= MaxCap
    /\ oom => vec[a].size >= Capacity(vec[a])
    /\ LET r == Emplace(heap, vec[a], vec[a].size, val, oom)
       IN  /\ heap' = r.heap
           /\ vec' = [vec EXCEPT ![a] = r.self]
           /\ last' = Seen(Call("PushBack", a, a, vec[a].size, val, r.res, r.branch))
           /\ log' = IF r.res = "ok" /\ log[a].only_appends
                     THEN [log EXCEPT ![a].vals = Append(@, val)]
                     ELSE log
    /\ discarded' = << >>
    /\ UNCHANGED <<nothrow_move, leaked, watch>>

\* a.Insert(a.begin() + pos, val); a.Emplace(a.begin() + pos, val);
Insert(a, pos, val, oom) ==
    /\ vec[a].live
    /\ pos \in 0 .. vec[a].size
    /\ vec[a].size < Capacity(vec[a]) \/ GrowCapacity(vec[a]) <= MaxCap
    /\ oom => vec[a].size >= Capacity(vec[a])
    /\ LET r == Emplace(heap, vec[a], pos, val, oom)
       IN  /\ heap' = r.heap
           /\ vec' = [vec EXCEPT ![a] = r.self]
           /\ last' = Seen(Call("Insert", a, a, pos, val, r.res, r.branch))
    /\ log' = Unlog({a})
    /\ discarded' = << >>
    /\ UNCHANGED <<nothrow_move, leaked, watch>>

\* a.Erase(a.begin() + pos);
Erase(a, pos) ==
    /\ vec[a].live
    /\ pos \in 0 .. vec[a].size - 1
    /\ LET r == EraseAt(heap, vec[a], pos)
       IN  /\ heap' = r.heap
           /\ vec' = [vec EXCEPT ![a] = r.self]
    /\ last' = Seen(Call("Erase", a, a, pos, 0, "ok", "none"))
    /\ log' = Unlog({a})
    /\ discarded' = << >>
    /\ UNCHANGED <<nothrow_move, leaked, watch>>

\* a.Resize(new_size);
Resize(a, new_size, oom) ==
    /\ vec[a].live
    /\ new_size \in 0 .. MaxCap
    /\ oom => new_size > Capacity(vec[a])
    /\ LET r == ResizeTo(heap, vec[a], new_size, oom)
       IN  /\ heap' = r.heap
           /\ vec' = [vec EXCEPT ![a] = r.self]
           /\ last' = Seen(Call("Resize", a, a, new_size, 0, r.res, r.branch))
    /\ log' = Unlog({a})
    /\ discarded' = << >>
    /\ UNCHANGED <<nothrow_move, leaked, watch>>

\* a.PopBack(); on a non-empty array
PopBack(a) ==
    /\ vec[a].live
    /\ vec[a].size > 0
    /\ LET r == ResizeTo(heap, vec[a], vec[a].size - 1, FALSE)
       IN  /\ heap' = r.heap
           /\ vec' = [vec EXCEPT ![a] = r.self]
           /\ last' = Seen(Call("PopBack", a, a, vec[a].size - 1, 0, r.res, r.branch))
    /\ log' = Unlog({a})
    /\ discarded' = << >>
    /\ UNCHANGED <<nothrow_move, leaked, watch>>

\* a.Reserve(new_capacity);
Reserve(a, new_capacity, oom) ==
    /\ vec[a].live
    /\ new_capacity \in 0 .. MaxCap
    /\ oom => new_capacity > Capacity(vec[a])
    /\ LET r == ReserveTo(heap, vec[a], new_capacity, oom)
       IN  /\ heap' = r.heap
           /\ vec' = [vec EXCEPT ![a] = r.self]
           /\ last' = Seen(Call("Reserve", a, a, new_capacity, 0, r.res, r.branch))
    /\ log' = Unlog({a})
    /\ discarded' = << >>
    /\ UNCHANGED <<nothrow_move, leaked, watch>>

\* as Swap, but size_ is not exchanged
SwapBlocksOnly(a, b) ==
    /\ a # b
    /\ vec[a].live
    /\ vec[b].live
    /\ vec' = [vec EXCEPT ![a] = [vec[b] EXCEPT !.size = vec[a].size],
                          ![b] = [vec[a] EXCEPT !.size = vec[b].size]]
    /\ last' = Seen(Call("Swap", a, b, 0, 0, "ok", "none"))
    /\ log' = Unlog({a, b})
    /\ discarded' = << >>
    /\ UNCHANGED <<heap, nothrow_move, leaked, watch>>

\* a.Swap(b);
Swap(a, b) ==
    /\ a # b
    /\ vec[a].live
    /\ vec[b].live
    /\ vec' = [vec EXCEPT ![a] = vec[b], ![b] = vec[a]]
    /\ last' = Seen(Call("Swap", a, b, 0, 0, "ok", "none"))
    /\ log' = Unlog({a, b})
    /\ discarded' = << >>
    /\ UNCHANGED <<heap, nothrow_move, leaked, watch>>

\* a[index] = val;
Write(a, index, val) ==
    /\ vec[a].live
    /\ index \in 0 .. vec[a].size - 1
    /\ heap' = Put(heap, vec[a].buffer, index, val)
    /\ last' = Seen(Call("operator[]", a, a, index, val, "ok", "none"))
    /\ log' = Unlog({a})
    /\ discarded' = << >>
    /\ UNCHANGED <<vec, nothrow_move, leaked, watch>>

\* the end of a's lifetime
Destroy(a) ==
    /\ vec[a].live
    /\ heap' = Destructor(heap, vec[a])
    /\ vec' = [vec EXCEPT ![a] = NoVector]
    /\ last' = Seen(Call("~Vector", a, a, 0, 0, "ok", "none"))
    /\ log' = Unlog({a})
    /\ discarded' = << >>
    /\ UNCHANGED <<nothrow_move, leaked, watch>>

\* a.PushBack(val); when an operation of T throws
PushBackThrows(a, val, point, j) ==
    /\ vec[a].live
    /\ EmplaceCanThrow(vec[a], vec[a].size, point, j)
    /\ vec[a].size >= Capacity(vec[a]) =>
           /\ GrowCapacity(vec[a]) <= MaxCap
           /\ ~AllocFails(heap, GrowCapacity(vec[a]), FALSE)
    /\ LET r == EmplaceUnwinds(heap, vec[a], vec[a].size, val, point, j)
       IN  /\ heap' = r.heap
           /\ vec' = [vec EXCEPT ![a] = r.self]
           /\ discarded' = r.discarded
           /\ last' = Seen(Call("PushBack", a, a, vec[a].size, val, r.res, r.branch))
    /\ log' = Unlog({a})
    /\ UNCHANGED <<nothrow_move, leaked, watch>>

\* a.Insert(a.begin() + pos, val); when an operation of T throws
InsertThrows(a, pos, val, point, j) ==
    /\ vec[a].live
    /\ pos \in 0 .. vec[a].size
    /\ EmplaceCanThrow(vec[a], pos, point, j)
    /\ vec[a].size >= Capacity(vec[a]) =>
           /\ GrowCapacity(vec[a]) <= MaxCap
           /\ ~AllocFails(heap, GrowCapacity(vec[a]), FALSE)
    /\ LET r == EmplaceUnwinds(heap, vec[a], pos, val, point, j)
       IN  /\ heap' = r.heap
           /\ vec' = [vec EXCEPT ![a] = r.self]
           /\ discarded' = r.discarded
           /\ last' = Seen(Call("Insert", a, a, pos, val, r.res, r.branch))
    /\ log' = Unlog({a})
    /\ UNCHANGED <<nothrow_move, leaked, watch>>

\* a.Erase(a.begin() + pos); when an assignment of T throws
EraseThrows(a, pos, point, j) ==
    /\ vec[a].live
    /\ pos \in 0 .. vec[a].size - 1
    /\ EraseCanThrow(vec[a], pos, point, j)
    /\ LET r == EraseAtUnwinds(heap, vec[a], pos, point, j)
       IN  /\ heap' = r.heap
           /\ vec' = [vec EXCEPT ![a] = r.self]
           /\ discarded' = r.discarded
           /\ last' = Seen(Call("Erase", a, a, pos, 0, r.res, r.branch))
    /\ log' = Unlog({a})
    /\ UNCHANGED <<nothrow_move, leaked, watch>>

\* a.Resize(new_size); when an operation of T throws
ResizeThrows(a, new_size, point, j) ==
    /\ vec[a].live
    /\ new_size \in 0 .. MaxCap
    /\ ResizeCanThrow(vec[a], new_size, point, j)
    /\ new_size > Capacity(vec[a]) => ~AllocFails(heap, new_size, FALSE)
    /\ LET r == ResizeToUnwinds(heap, vec[a], new_size, point, j)
       IN  /\ heap' = r.heap
           /\ vec' = [vec EXCEPT ![a] = r.self]
           /\ discarded' = r.discarded
           /\ last' = Seen(Call("Resize", a, a, new_size, 0, r.res, r.branch))
    /\ log' = Unlog({a})
    /\ UNCHANGED <<nothrow_move, leaked, watch>>

\* a.Reserve(new_capacity); when a copy of T throws
ReserveThrows(a, new_capacity, point, j) ==
    /\ vec[a].live
    /\ new_capacity \in 0 .. MaxCap
    /\ ReserveCanThrow(vec[a], new_capacity, point, j)
    /\ ~AllocFails(heap, new_capacity, FALSE)
    /\ LET r == ReserveToUnwinds(heap, vec[a], new_capacity, point, j)
       IN  /\ heap' = r.heap
           /\ vec' = [vec EXCEPT ![a] = r.self]
           /\ discarded' = r.discarded
           /\ last' = Seen(Call("Reserve", a, a, new_capacity, 0, r.res, r.branch))
    /\ log' = Unlog({a})
    /\ UNCHANGED <<nothrow_move, leaked, watch>>

\* a = b; when an operation of T throws
CopyAssignThrows(a, b, point, j) ==
    /\ a # b
    /\ vec[a].live
    /\ vec[b].live
    /\ CopyAssignCanThrow(vec[a], vec[b], point, j)
    /\ Capacity(vec[a]) < vec[b].size => ~AllocFails(heap, vec[b].size, FALSE)
    /\ LET r == CopyAssignToUnwinds(heap, vec[a], vec[b], point, j)
       IN  /\ heap' = r.heap
           /\ vec' = [vec EXCEPT ![a] = r.self]
           /\ discarded' = r.discarded
           /\ last' = Seen(Call("operator=(const&)", a, b, 0, 0, r.res, r.branch))
    /\ log' = Unlog({a})
    /\ UNCHANGED <<nothrow_move, leaked, watch>>

\* a.PopBack(); on an empty array: size_ - 1 wraps to SIZE_MAX, and what
\* Resize throws cannot leave a noexcept function: std::terminate is called
PopBackEmpty(a) ==
    /\ vec[a].live
    /\ vec[a].size = 0
    /\ LET new_size == (vec[a].size - 1) % (SizeMax + 1)
           r == ResizeTo(heap, vec[a], new_size, FALSE)
       IN  /\ heap' = r.heap
           /\ vec' = [vec EXCEPT ![a] = r.self]
           /\ last' = Seen(Call("PopBack", a, a, new_size, 0,
                                IF r.res = "ok" THEN "ok" ELSE "terminate", r.branch))
    /\ log' = Unlog({a})
    /\ discarded' = << >>
    /\ UNCHANGED <<nothrow_move, leaked, watch>>

\* the calls made on one object that an operation of T ends by a throw
AloneThrows(a) ==
    \E point \in Throws, j \in 0 .. MaxCap :
        \/ \E val \in Values : PushBackThrows(a, val, point, j)
        \/ \E pos \in 0 .. MaxCap, val \in Values : InsertThrows(a, pos, val, point, j)
        \/ \E pos \in 0 .. MaxCap : EraseThrows(a, pos, point, j)
        \/ \E n \in 0 .. MaxCap : ResizeThrows(a, n, point, j)
        \/ \E n \in 0 .. MaxCap : ReserveThrows(a, n, point, j)

\* the calls made on one object
Alone(a) ==
    \/ DefaultConstruct(a)
    \/ \E n \in 0 .. MaxCap, oom \in BOOLEAN : SizedConstruct(a, n, oom)
    \/ \E val \in Values, oom \in BOOLEAN : PushBack(a, val, oom)
    \/ \E pos \in 0 .. MaxCap, val \in Values, oom \in BOOLEAN : Insert(a, pos, val, oom)
    \/ \E pos \in 0 .. MaxCap : Erase(a, pos)
    \/ \E n \in 0 .. MaxCap, oom \in BOOLEAN : Resize(a, n, oom)
    \/ PopBack(a)
    \/ \E n \in 0 .. MaxCap, oom \in BOOLEAN : Reserve(a, n, oom)
    \/ \E i \in 0 .. MaxCap, val \in Values : Write(a, i, val)
    \/ Destroy(a)

\* the calls that involve a second object
Paired(a, b) ==
    \/ \E oom \in BOOLEAN : CopyConstruct(a, b, oom)
    \/ MoveConstruct(a, b)
    \/ \E oom \in BOOLEAN : CopyAssign(a, b, oom)
    \/ MoveAssign(a, b)
    \/ Swap(a, b)

Next ==
    \/ \E a \in Vecs : Alone(a)
    \/ \E a, b \in Vecs : Paired(a, b)

\* a program with one Vector
NextOne == Alone("a")

\* any program on a nothrow-movable T, no call recorded
Spec == Init /\ [][Next]_vars

\* a program with one Vector, of either kind of T, every call recorded in full
SpecOne == InitWatching(AllCalls \cup {"args", "log"}, BOOLEAN) /\ [][NextOne]_vars

\* any program, the calls that add an element recorded
SpecGrow == InitWatching({"PushBack", "Insert"}, {TRUE}) /\ [][Next]_vars

\* any program, the moves, the swaps and PopBack recorded
SpecMove ==
    InitWatching({"Vector(&&)", "operator=(&&)", "Swap", "PopBack"}, {TRUE}) /\ [][Next]_vars

\* any program, the copy constructions and the objects of every call recorded
SpecCopy == InitWatching({"Vector(const&)", "any"}, {TRUE}) /\ [][Next]_vars

\* any program, the copy assignments recorded
SpecAssign == InitWatching({"operator=(const&)"}, {TRUE}) /\ [][Next]_vars

\* the calls of a program in which "b" is only ever built and copied from,
\* and every other call is made on "a"
Source(a, b) ==
    \/ \E n \in 0 .. MaxCap, oom \in BOOLEAN : SizedConstruct(b, n, oom)
    \/ \E oom \in BOOLEAN : CopyAssign(a, b, oom)
    \/ Destroy(b)

\* the calls of a program with one Vector and a second one to copy from,
\* the copy assignments that end by a throw among them
NextFail ==
    \/ Alone("a")
    \/ Source("a", "b")
    \/ \E point \in Throws, j \in 0 .. MaxCap : CopyAssignThrows("a", "b", point, j)

\* the calls of a program with one Vector, those that end by a throw and a
\* PopBack() on an empty array among them; nothing follows std::terminate
NextThrow ==
    /\ last.res # "terminate"
    /\ \/ Alone("a")
       \/ AloneThrows("a")
       \/ PopBackEmpty("a")

\* a program with one Vector and a second one to copy from, of either kind
\* of T, every call recorded in full
SpecFail == InitWatching(AllCalls \cup {"args"}, BOOLEAN) /\ [][NextFail]_vars

\* a program with one Vector, of either kind of T, whose operations can
\* throw; PopBack and the calls that do not return recorded
SpecThrow == InitWatching({"PopBack", "failed"}, BOOLEAN) /\ [][NextThrow]_vars

\* the values of the scenario
TraceValues == {1, 2, 3, 9}

\* the program Vector a; PushBack x3; Insert(begin() + 1, v); Erase(begin());
\* PopBack(); Resize(4), for any values pushed and inserted: the call that
\* comes next is read off log and last
NextTrace ==
    \/ /\ ~vec["a"].live
       /\ DefaultConstruct("a")
    \/ /\ log["a"].only_appends /\ Len(log["a"].vals) < 3
       /\ \E val \in TraceValues : PushBack("a", val, FALSE)
    \/ /\ log["a"].only_appends /\ Len(log["a"].vals) = 3
       /\ \E val \in TraceValues : Insert("a", 1, val, FALSE)
    \/ /\ last.op = "Insert"
       /\ Erase("a", 0)
    \/ /\ last.op = "Erase"
       /\ PopBack("a")
    \/ /\ last.op = "PopBack"
       /\ Resize("a", 4, FALSE)

\* the scenario, for either kind of T, every call recorded in full
SpecTrace == InitWatching(AllCalls \cup {"args", "log"}, BOOLEAN) /\ [][NextTrace]_vars

(* ------------------------------ claims -------------------------------- *)

\* what the caller can observe of a Vector: Size(), Capacity(), operator[]
View(h, v) == [size |-> Size(v), capacity |-> Capacity(v), elems |-> Elems(h, v)]

\* C1: starting from an empty array, after N successful PushBack/EmplaceBack
\* calls with values v1 .. vN, Size() is N and index i holds v(i+1), however
\* many reallocations happened in between.
C1_AppendsInOrder ==
    \A a \in Vecs :
        vec[a].live /\ log[a].only_appends =>
            /\ Size(vec[a]) = Len(log[a].vals)
            /\ \A i \in 1 .. Len(log[a].vals) :
                   Get(heap, vec[a].buffer, i - 1) = log[a].vals[i]

\* three appends to an empty array, grown 0 -> 1 -> 2 -> 4 on the way
C1_Witness ==
    /\ vec["a"].live
    /\ log["a"].only_appends
    /\ log["a"].vals = <<1, 0, 1>>
    /\ Capacity(vec["a"]) = 4
    /\ last.op = "PushBack" /\ last.branch = "grow"

\* C2: Insert(p, v) / Emplace at p, p in [0, size], yields an array of the old
\* size + 1 with v at index p, the elements before p unchanged and every
\* element that was at index i >= p now at i + 1, on the spare-capacity
\* branch and on the growth branch alike.
C2_InsertShifts ==
    [][ (last'.op = "Insert" /\ last'.res = "ok") =>
          LET a   == last'.self
              p   == last'.n
              old == Elems(heap, vec[a])
              new == Elems(heap', vec'[a])
          IN  /\ Len(new) = Len(old) + 1
              /\ new[p + 1] = last'.val
              /\ \A i \in 1 .. p : new[i] = old[i]
              /\ \A i \in p + 1 .. Len(old) : new[i + 1] = old[i]
              /\ last'.branch = (IF Size(vec[a]) < Capacity(vec[a])
                                 THEN "spare" ELSE "grow")
      ]_vars

\* an insertion in the middle of a full two-element array
C2_Witness ==
    /\ last.op = "Insert" /\ last.res = "ok" /\ last.branch = "grow"
    /\ last.n = 1
    /\ Size(vec["a"]) = 3
    /\ Elems(heap, vec["a"]) = <<0, 1, 0>>

\* C3: Erase(p), p in [0, size), removes exactly the element at p: the size
\* drops by one, the elements before p are unchanged, every element that was
\* at index i > p is now at i - 1, and the capacity is unchanged.
C3_EraseShifts ==
    [][ last'.op = "Erase" =>
          LET a   == last'.self
              p   == last'.n
              old == Elems(heap, vec[a])
              new == Elems(heap', vec'[a])
          IN  /\ Len(new) = Len(old) - 1
              /\ \A i \in 1 .. p : new[i] = old[i]
              /\ \A i \in p + 2 .. Len(old) : new[i - 1] = old[i]
              /\ Capacity(vec'[a]) = Capacity(vec[a])
      ]_vars

\* the first of four elements erased
C3_Witness ==
    /\ last.op = "Erase" /\ last.n = 0
    /\ Size(vec["a"]) = 3
    /\ Elems(heap, vec["a"]) = <<1, 0, 1>>

\* C4: a Resize(k) that returns leaves size == k; the first min(old size, k)
\* elements are unchanged and in the same order, and every element at an
\* index in [old size, k) equals T(), with or without a reallocation.
C4_ResizeKeepsPrefix ==
    [][ (last'.op = "Resize" /\ last'.res = "ok") =>
          LET a   == last'.self
              k   == last'.n
              old == Elems(heap, vec[a])
              new == Elems(heap', vec'[a])
          IN  /\ Size(vec'[a]) = k
              /\ Len(new) = k
              /\ \A i \in 1 .. k : new[i] = (IF i <= Len(old) THEN old[i] ELSE Default)
              /\ (last'.branch = "grow") = (k # Len(old) /\ k > Capacity(vec[a]))
      ]_vars

\* a two-element array resized to four, which reallocates
C4_Witness ==
    /\ last.op = "Resize" /\ last.res = "ok" /\ last.branch = "grow"
    /\ last.n = 4
    /\ Elems(heap, vec["a"]) = <<1, 1, Default, Default>>

\* C5: Reserve(c) with c <= capacity changes nothing; a Reserve(c) with
\* c > capacity that returns sets the capacity to exactly c and leaves the
\* size and the value and order of every element unchanged.
C5_ReserveFrame ==
    [][ (last'.op = "Reserve" /\ last'.res = "ok") =>
          LET a == last'.self
              c == last'.n
          IN  IF c <= Capacity(vec[a])
              THEN vec'[a] = vec[a] /\ heap' = heap
              ELSE /\ Capacity(vec'[a]) = c
                   /\ Size(vec'[a]) = Size(vec[a])
                   /\ Elems(heap', vec'[a]) = Elems(heap, vec[a])
      ]_vars

\* a two-element array of capacity two reserved to four
C5_Witness ==
    /\ last.op = "Reserve" /\ last.res = "ok" /\ last.branch = "grow"
    /\ last.n = 4
    /\ Capacity(vec["a"]) = 4
    /\ Elems(heap, vec["a"]) = <<1, 0>>

\* C6: a PushBack/Insert/Emplace that returns, called with size == capacity,
\* leaves capacity == max(1, 2 * old capacity); called with size < capacity
\* it leaves the capacity unchanged; in every state any sequence of calls on
\* any of the arrays reaches.
C6_GrowthDoubles ==
    [][ (last'.op \in {"PushBack", "Insert"} /\ last'.res = "ok") =>
          LET a   == last'.self
              cap == Capacity(vec[a])
          IN  /\ Size(vec[a]) <= cap
              /\ Size(vec[a]) = cap =>
                    Capacity(vec'[a]) = (IF 2 * cap > 1 THEN 2 * cap ELSE 1)
              /\ Size(vec[a]) < cap => Capacity(vec'[a]) = cap
      ]_vars

\* an insertion that grew an array from capacity 1 to 2 while the other
\* array holds elements and a move assignment has already happened
C6_Witness ==
    /\ last.op = "Insert" /\ last.res = "ok" /\ last.branch = "grow"
    /\ Capacity(vec[last.self]) = 2
    /\ leaked = 1
    /\ \E b \in Vecs \ {last.self} : vec[b].live /\ Size(vec[b]) >= 1

MoveCalls == {"Vector(&&)", "operator=(&&)", "Swap"}

\* C7 as stated: the capacity of an array after any public operation is
\* greater than or equal to its capacity before.
C7_CapacityNeverDecreases ==
    [][ \A a \in Vecs :
          vec[a].live /\ vec'[a].live => Capacity(vec'[a]) >= Capacity(vec[a])
      ]_vars

\* C7 as amended: the capacity of an array is lowered by no operation but a
\* move construction or move assignment it is the source or the target of,
\* and a Swap it takes part in.
C7_CapacityLoweredOnlyByMoveOrSwap ==
    [][ \A a \in Vecs :
          (vec[a].live /\ vec'[a].live /\ Capacity(vec'[a]) < Capacity(vec[a])) =>
              /\ last'.op \in MoveCalls
              /\ a \in {last'.self, last'.other}
      ]_vars

\* the last element of an array of capacity four popped: the capacity stays
C7_Witness ==
    /\ last.op = "PopBack" /\ last.branch = "shrink"
    /\ Size(vec[last.self]) = 0
    /\ Capacity(vec[last.self]) = 4

\* C8: a copy-constructed array has the size of its source and equal
\* elements at every index; a call made on one array alone leaves the size,
\* the capacity and the elements of the other unchanged; and two arrays never
\* point to the same block.
C8_DeepCopy ==
    [][ /\ (last'.op = "Vector(const&)" /\ last'.res = "ok") =>
              LET a == last'.self
                  b == last'.other
              IN  /\ Size(vec'[a]) = Size(vec[b])
                  /\ Elems(heap', vec'[a]) = Elems(heap, vec[b])
                  /\ vec'[b] = vec[b]
                  /\ View(heap', vec'[b]) = View(heap, vec[b])
        /\ (last'.op = "any" /\ last'.self = last'.other) =>
              \A y \in Vecs \ {last'.self} :
                  /\ vec'[y] = vec[y]
                  /\ View(heap', vec'[y]) = View(heap, vec[y])
        /\ \A x, y \in Vecs :
              (x # y /\ vec'[x].buffer # NullPtr) => vec'[x].buffer # vec'[y].buffer
      ]_vars

\* a two-element array of capacity four has just been copied
C8_Witness ==
    /\ last.op = "Vector(const&)" /\ last.res = "ok"
    /\ Capacity(vec[last.other]) = 4
    /\ Elems(heap, vec[last.other]) = <<1, 0>>
    /\ Elems(heap, vec[last.self]) = <<1, 0>>
    /\ vec[last.self].buffer # vec[last.other].buffer

\* C9: after a move construction or a move assignment from another array the
\* source has size 0 and capacity 0, the target has the size, the capacity
\* and the elements the source had, in the block the source had, and no
\* block was allocated and no slot of a block written.
C9_MoveTransfers ==
    [][ (last'.op \in {"Vector(&&)", "operator=(&&)"} /\ last'.self # last'.other) =>
          LET a == last'.self
              b == last'.other
          IN  /\ Size(vec'[b]) = 0
              /\ Capacity(vec'[b]) = 0
              /\ View(heap', vec'[a]) = View(heap, vec[b])
              /\ vec'[a].buffer = vec[b].buffer
              /\ \A x \in Blocks : heap'[x].alloc => heap'[x] = heap[x]
      ]_vars

\* a two-element array has just been move-assigned to an array that held a block
C9_Witness ==
    /\ last.op = "operator=(&&)" /\ last.self # last.other
    /\ leaked = 1
    /\ Capacity(vec[last.self]) = 2
    /\ Elems(heap, vec[last.self]) = <<1, 0>>
    /\ Capacity(vec[last.other]) = 0

\* C10: a copy assignment a = b between two arrays that returns leaves a with
\* the size and the elements of b and b unchanged; when the capacity of a was
\* >= b.size the block of a is reused (nothing allocated or released, the
\* capacity unchanged, no element left beyond the new size); only when it was
\* < b.size is a block allocated.
C10_CopyAssign ==
    [][ (last'.op = "operator=(const&)" /\ last'.self # last'.other
                                        /\ last'.res = "ok") =>
          LET a == last'.self
              b == last'.other
          IN  /\ Size(vec'[a]) = Size(vec[b])
              /\ Elems(heap', vec'[a]) = Elems(heap, vec[b])
              /\ vec'[b] = vec[b]
              /\ View(heap', vec'[b]) = View(heap, vec[b])
              /\ IF Capacity(vec[a]) >= Size(vec[b])
                 THEN /\ last'.branch = "reuse"
                      /\ vec'[a].buffer = vec[a].buffer
                      /\ Capacity(vec'[a]) = Capacity(vec[a])
                      /\ \A x \in Blocks : heap'[x].alloc = heap[x].alloc
                      /\ \A i \in Size(vec[b]) .. Capacity(vec[a]) - 1 :
                             Get(heap', vec'[a].buffer, i) = Raw
                 ELSE /\ last'.branch = "realloc"
                      /\ vec'[a].buffer # NullPtr
                      /\ ~heap[vec'[a].buffer].alloc
      ]_vars

\* a three-element array assigned to an array that had the capacity for it
C10_Witness ==
    /\ last.op = "operator=(const&)" /\ last.res = "ok" /\ last.branch = "reuse"
    /\ last.self # last.other
    /\ Capacity(vec[last.self]) = 3
    /\ Elems(heap, vec[last.self]) = <<1, 0, 1>>

\* the calls that allocate storage for an array that already exists
AllocatingCalls == {"Reserve", "Resize", "PushBack", "Insert", "operator=(const&)"}

\* C11: when the allocation inside Reserve, Resize, PushBack, Insert/Emplace
\* or copy assignment fails, the call ends with std::bad_alloc, which only
\* the branch that allocates can raise, and the size, the capacity, the block
\* and every element of every array are as they were before the call.
C11_OutOfMemoryNoEffect ==
    [][ (last'.res = "bad_alloc" /\ last'.op \in AllocatingCalls) =>
          LET a == last'.self
          IN  /\ vec' = vec
              /\ heap' = heap
              /\ leaked' = leaked
              /\ View(heap', vec'[a]) = View(heap, vec[a])
              /\ last'.branch \in {"grow", "realloc"}
              /\ last'.op = "Resize" => last'.n > Capacity(vec[a])
              /\ last'.op = "Reserve" => last'.n > Capacity(vec[a])
              /\ last'.op \in {"PushBack", "Insert"} => Size(vec[a]) = Capacity(vec[a])
              /\ last'.op = "operator=(const&)" =>
                     Capacity(vec[a]) < Size(vec[last'.other])
      ]_vars

\* a copy assignment of a two-element array to a one-element array has just
\* failed to allocate
C11_Witness ==
    /\ last.op = "operator=(const&)" /\ last.res = "bad_alloc"
    /\ Elems(heap, vec[last.self]) = <<1>>
    /\ Capacity(vec[last.self]) = 1
    /\ Elems(heap, vec[last.other]) = <<Default, Default>>

\* the calls that can move the elements to a larger block
GrowingCalls == {"Reserve", "Resize", "PushBack", "Insert"}

\* C12: when T is relocated by copying and a copy throws on the growth path
\* of Reserve, Resize, PushBack or Insert/Emplace, after any number of
\* elements were copied, the array has the block, the capacity and the size
\* it had, and every slot of that block holds what it held.
C12_CopyFailureLeavesArray ==
    [][ (last'.res = "copy_throws" /\ last'.branch = "grow") =>
          LET a == last'.self
          IN  /\ last'.op \in GrowingCalls
              /\ ~nothrow_move
              /\ vec' = vec
              /\ Slots(heap', vec'[a].buffer) = Slots(heap, vec[a].buffer)
              /\ View(heap', vec'[a]) = View(heap, vec[a])
              /\ \A i \in 1 .. Size(vec[a]) :
                     Elems(heap', vec'[a])[i] # Raw
      ]_vars

\* a copy has just thrown while an insertion was growing a full array of
\* two elements
C12_Witness ==
    /\ last.op = "Insert" /\ last.res = "copy_throws" /\ last.branch = "grow"
    /\ Capacity(vec[last.self]) = 2
    /\ Elems(heap, vec[last.self]) = <<1, 0>>

\* C13: when a call throws on a growth path, no slot of the new block holds
\* an object at the moment the block is released.
C13_NewBlockEmptyWhenReleased ==
    [][ (last'.res \in Throws /\ last'.branch = "grow") =>
          \A i \in DOMAIN discarded' : discarded'[i] = Raw
      ]_vars

\* C14: when the construction of the new element throws on the branch
\* size < capacity of PushBack or Insert/Emplace, at the end or in the
\* middle, the size, the capacity and every slot are as before the call.
C14_ConstructFailureNoEffect ==
    [][ (last'.res = "construct_throws"
           /\ last'.branch \in {"spare_end", "spare_middle"}) =>
          LET a == last'.self
          IN  /\ last'.op \in {"PushBack", "Insert"}
              /\ last'.op = "PushBack" => last'.branch = "spare_end"
              /\ Size(vec[a]) < Capacity(vec[a])
              /\ vec' = vec
              /\ heap' = heap
              /\ View(heap', vec'[a]) = View(heap, vec[a])
      ]_vars

\* the construction of an element to insert before the end of a
\* two-element array of capacity four has just thrown
C14_Witness ==
    /\ last.op = "Insert" /\ last.res = "construct_throws"
    /\ last.branch = "spare_middle"
    /\ Capacity(vec[last.self]) = 4
    /\ Elems(heap, vec[last.self]) = <<1, 0>>

\* the branches of Resize
ResizeBranches == {"same", "grow", "shrink", "fill"}

\* C15: PopBack() on a non-empty array does what Resize(size - 1) does: the
\* last element is destroyed, the size drops by one, the capacity and the
\* other elements stay; PopBack() on an empty array runs no branch of Resize.
C15_PopBackChecksEmpty ==
    [][ last'.op = "PopBack" =>
          LET a == last'.self
              r == ResizeTo(heap, vec[a], Size(vec[a]) - 1, FALSE)
          IN  IF Size(vec[a]) > 0
              THEN /\ heap' = r.heap
                   /\ vec'[a] = r.self
                   /\ Size(vec'[a]) = Size(vec[a]) - 1
                   /\ Capacity(vec'[a]) = Capacity(vec[a])
                   /\ \A i \in 1 .. Size(vec'[a]) :
                          Elems(heap', vec'[a])[i] = Elems(heap, vec[a])[i]
                   /\ Get(heap', vec'[a].buffer, Size(vec'[a])) = Raw
              ELSE last'.branch \notin ResizeBranches
      ]_vars

\* C16: a.Swap(b) leaves a with the block, the capacity, the size and the
\* elements b had and b with those a had, writes no slot of any block and
\* allocates or releases nothing; a second Swap gives back the first state.
C16_SwapExchanges ==
    [][ last'.op = "Swap" =>
          LET a == last'.self
              b == last'.other
          IN  /\ a # b
              /\ vec'[a] = vec[b]
              /\ vec'[b] = vec[a]
              /\ heap' = heap
              /\ View(heap', vec'[a]) = View(heap, vec[b])
              /\ View(heap', vec'[b]) = View(heap, vec[a])
              /\ [vec' EXCEPT ![a] = vec'[b], ![b] = vec'[a]] = vec
      ]_vars

\* a two-element array of capacity two has just been swapped with a
\* one-element array of capacity four
C16_Witness ==
    /\ last.op = "Swap"
    /\ Capacity(vec[last.self]) = 4
    /\ Elems(heap, vec[last.self]) = <<1>>
    /\ Capacity(vec[last.other]) = 2
    /\ Elems(heap, vec[last.other]) = <<0, 1>>

\* C17: after a Resize(k) that returns, the capacity is k when k was greater
\* than the capacity, and the capacity it was otherwise, whether k is below
\* the size, equal to it, or between the size and the capacity.
C17_ResizeCapacity ==
    [][ (last'.op = "Resize" /\ last'.res = "ok") =>
          LET a == last'.self
              k == last'.n
          IN  /\ Capacity(vec'[a]) = (IF k > Capacity(vec[a]) THEN k
                                                              ELSE Capacity(vec[a]))
              /\ Capacity(vec'[a]) >= Capacity(vec[a])
              /\ k < Size(vec[a]) => last'.branch = "shrink"
              /\ (Size(vec[a]) < k /\ k <= Capacity(vec[a])) => last'.branch = "fill"
      ]_vars

\* a one-element array of capacity two resized to three: the capacity is
\* three, not four
C17_Witness ==
    /\ last.op = "Resize" /\ last.res = "ok" /\ last.branch = "grow"
    /\ last.n = 3
    /\ Capacity(vec["a"]) = 3
    /\ Elems(heap, vec["a"]) = <<1, Default, Default>>

\* C18: from Vector(), PushBack(1), PushBack(2), PushBack(3) give capacity
\* 1, 2, 4 and the elements [1,2,3]; Insert at 1 of 9 then gives [1,9,2,3],
\* Erase at 0 gives [9,2,3], PopBack() gives [9,2] and Resize(4) gives
\* [9,2,T(),T()], the size being the number of elements each time.
C18_ConcreteTrace ==
    [][ LET old == Elems(heap, vec["a"])
            new == Elems(heap', vec'["a"])
            cap == Capacity(vec'["a"])
            pushed == IF log'["a"].only_appends THEN log'["a"].vals ELSE << >>
        IN  /\ (last'.op = "PushBack" /\ pushed = <<1>>) =>
                   new = <<1>> /\ cap = 1
            /\ (last'.op = "PushBack" /\ pushed = <<1, 2>>) =>
                   new = <<1, 2>> /\ cap = 2
            /\ (last'.op = "PushBack" /\ pushed = <<1, 2, 3>>) =>
                   new = <<1, 2, 3>> /\ cap = 4 /\ Size(vec'["a"]) = 3
            /\ (log["a"].only_appends /\ log["a"].vals = <<1, 2, 3>>
                   /\ last'.op = "Insert" /\ last'.n = 1 /\ last'.val = 9) =>
                   new = <<1, 9, 2, 3>> /\ Size(vec'["a"]) = 4
            /\ (old = <<1, 9, 2, 3>> /\ last'.op = "Erase" /\ last'.n = 0) =>
                   new = <<9, 2, 3>> /\ Size(vec'["a"]) = 3
            /\ (old = <<9, 2, 3>> /\ last'.op = "PopBack") =>
                   new = <<9, 2>> /\ Size(vec'["a"]) = 2
            /\ (old = <<9, 2>> /\ last'.op = "Resize" /\ last'.n = 4) =>
                   new = <<9, 2, Default, Default>> /\ Size(vec'["a"]) = 4
      ]_vars

\* the end of the scenario
C18_Witness ==
    /\ last.op = "Resize" /\ last.res = "ok" /\ last.n = 4
    /\ Size(vec["a"]) = 4
    /\ Capacity(vec["a"]) = 4
    /\ Elems(heap, vec["a"]) = <<9, 2, Default, Default>>

\* C19: an array that exists has 0 <= size <= capacity, an object in each
\* of the slots [0, size) and none in the slots [size, capacity), whatever
\* calls were made and however they ended.
C19_LiveSlotsAreThePrefix ==
    \A a \in Vecs :
        vec[a].live =>
            /\ 0 <= Size(vec[a]) /\ Size(vec[a]) <= Capacity(vec[a])
            /\ \A i \in 0 .. Size(vec[a]) - 1 : Get(heap, vec[a].buffer, i) # Raw
            /\ \A i \in Size(vec[a]) .. Capacity(vec[a]) - 1 :
                   Get(heap, vec[a].buffer, i) = Raw

\* the arrays that hold block x
Owners(x) == {a \in Vecs : vec[a].live /\ vec[a].buffer = x}

\* C20: no block is lost, every block that is allocated is held by exactly
\* one array, and once every array has been destroyed no block is allocated.
C20_NoLeakNoDoubleRelease ==
    /\ leaked = 0
    /\ \A x \in Blocks : heap[x].alloc => Cardinality(Owners(x)) = 1
    /\ (\A a \in Vecs : ~vec[a].live) => \A x \in Blocks : ~heap[x].alloc

====
